---- MODULE Spec2Model ----
(***************************************************************************)
(* Model of the Exa MCP server: the configuration-driven tool registry of  *)
(* src/index.ts, the single-phase capability handlers of                   *)
(* src/tools/exaCode.ts and src/tools/deepSearch.ts, the two-phase        *)
(* research task protocol (submit / poll), and repeated calls of the       *)
(* default export in one process.                                          *)
(*                                                                         *)
(* Strings are sequences of tokens.  A token is a separator ",", a         *)
(* whitespace character " ", or a word (a run of characters holding        *)
(* neither a comma nor whitespace, e.g. "web_search_exa").  A tool id is   *)
(* the one-word string <<id>>.                                             *)
(***************************************************************************)
EXTENDS Integers, Sequences, FiniteSets, TLC

VARIABLES
    phase,              \* "start" before the default export ran, "ready" after it returned,
                        \* "failed" after it threw
    config,             \* the config the default export was last called with
    parsedEnabledTools, \* normalizedConfig.enabledTools (index.ts:64-84)
    registeredTools,    \* registeredTools (index.ts:111)
    boundTools,         \* the tool names bound on the McpServer by server.tool, in order
    fault,              \* the step of the default export that threw, if one did
    returned,           \* what the default export gave its caller: a server or a throw
    errorLog,           \* the line the catch block of the default export logged
    toolsList,          \* the content the tools_list resource last returned
    inv,                \* the handler invocations: position, request count, outcome, completion
    tasks,              \* the status of each research task, held by the remote endpoint
    polls,              \* per task id, the statuses its Poll calls reported, in order
    lastOp,             \* who took the last step: a client tool or the remote endpoint
    payload,            \* the data of each research task, held by the remote endpoint
    lastPoll,           \* the most recent Poll call: its task id, snapshot and result
    lastSubmit,         \* the most recent Submit call: its requests, task id and result
    toolTable,          \* the module-level availableTools object of the process
    instances           \* the calls of the default export in this process, in order

regVars == <<phase, config, parsedEnabledTools, registeredTools, boundTools,
            fault, returned, errorLog, toolsList>>
handlerVars == <<inv>>
researchVars == <<tasks, polls, lastOp, payload, lastPoll, lastSubmit>>
processVars == <<toolTable, instances>>
vars == <<regVars, handlerVars, researchVars, processVars>>

----------------------------------------------------------------------------
(* Bounds of the configuration inputs *)

MaxStrLen == 4      \* tokens in a tool-selection string
MaxArrLen == 3      \* elements of a tool-selection array

Words == {"web_search_exa", "crawling_exa", "bogus_tool"}
Tokens == {",", " "} \cup Words

RECURSIVE StringsUpTo(_)
StringsUpTo(n) ==
    IF n = 0 THEN {<<>>}
    ELSE LET shorter == StringsUpTo(n - 1)
         IN  shorter \cup {Append(s, t) : s \in {x \in shorter : Len(x) = n - 1}, t \in Tokens}

RECURSIVE ArraysUpTo(_, _)
ArraysUpTo(n, elems) ==
    IF n = 0 THEN {<<>>}
    ELSE LET shorter == ArraysUpTo(n - 1, elems)
         IN  shorter \cup {Append(a, e) : a \in {x \in shorter : Len(x) = n - 1}, e \in elems}

----------------------------------------------------------------------------
(* The descriptor table *)

availableToolsCrawlingOn ==
    [id \in {"web_search_exa", "get_code_context_exa", "crawling_exa",
             "deep_researcher_start", "deep_researcher_check",
             "linkedin_search_exa", "company_research_exa"} |->
        [enabled |-> id \in {"web_search_exa", "get_code_context_exa", "crawling_exa"}]]

availableTools ==
    [id \in {"web_search_exa", "get_code_context_exa", "crawling_exa",
             "deep_researcher_start", "deep_researcher_check",
             "linkedin_search_exa", "company_research_exa"} |->
        [enabled |-> id \in {"web_search_exa", "get_code_context_exa"}]]

KnownIds == DOMAIN availableTools

----------------------------------------------------------------------------
(* Configuration values.  A tool-selection parameter is absent             *)
(* (undefined), a string, or an array of strings (configSchema).           *)

Absent == [kind |-> "absent", val |-> <<>>]
StringParam(s) == [kind |-> "string", val |-> s]
ArrayParam(a) == [kind |-> "array", val |-> a]

\* The selection the README documents for enabling every tool.
ReadmeAllTools ==
    <<"get_code_context_exa", ",", "web_search_exa", ",", "company_research", ",",
      "crawling", ",", "linkedin_search", ",", "deep_researcher_start", ",",
      "deep_researcher_check">>

\* The selection the README documents for code search.
ReadmeCodeSearch == <<"get_code_context_exa", ",", "web_search_exa">>

\* A string made only of separators and whitespace.
OnlySeparators == <<" ", " ", ",", " ", ",">>

\* The strings tried as elements of an array selection: empty, blank, ids
\* with and without surrounding whitespace, and two ids in one element.
Elements ==
    {<<>>, <<" ">>, <<"web_search_exa">>, <<" ", "web_search_exa">>, <<"web_search_exa", " ">>,
     <<"crawling_exa">>, <<"bogus_tool">>, <<"web_search_exa", ",", "crawling_exa">>}

ToolsParams ==
    {Absent}
    \cup {StringParam(s) : s \in StringsUpTo(MaxStrLen)
                                 \cup {ReadmeAllTools, ReadmeCodeSearch, OnlySeparators}}
    \cup {StringParam(<<id>>) : id \in KnownIds}
    \cup {ArrayParam(a) : a \in ArraysUpTo(MaxArrLen, Elements)}

\* The values tried for the alias parameter enabledTools.
EnabledToolsParams ==
    {Absent, StringParam(<<>>), StringParam(<<"crawling_exa">>), StringParam(<<",">>),
     ArrayParam(<<>>), ArrayParam(<< <<"crawling_exa">> >>)}

configSchema == [tools : ToolsParams, enabledTools : EnabledToolsParams]

----------------------------------------------------------------------------
(* String operations of the JavaScript runtime *)

\* Index of the first "," of s, 0 when there is none.
FirstComma(s) ==
    IF \E i \in 1..Len(s) : s[i] = ","
    THEN CHOOSE i \in 1..Len(s) : s[i] = "," /\ \A j \in 1..(i - 1) : s[j] # ","
    ELSE 0

\* String.prototype.split(','): the pieces between the commas, empty ones kept.
RECURSIVE split(_)
split(s) ==
    LET i == FirstComma(s)
    IN  IF i = 0 THEN <<s>>
        ELSE <<SubSeq(s, 1, i - 1)>> \o split(SubSeq(s, i + 1, Len(s)))

\* String.prototype.trim(): leading and trailing whitespace removed.
trim(s) ==
    LET inked == {i \in 1..Len(s) : s[i] # " "}
    IN  IF inked = {} THEN <<>>
        ELSE LET first == CHOOSE i \in inked : \A j \in inked : i <= j
                 last == CHOOSE i \in inked : \A j \in inked : j <= i
             IN  SubSeq(s, first, last)

\* Array.prototype.join(','), used to write an array as a delimited string.
RECURSIVE join(_)
join(a) ==
    IF Len(a) = 0 THEN <<>>
    ELSE IF Len(a) = 1 THEN a[1]
    ELSE a[1] \o <<",">> \o join(Tail(a))

\* Array.prototype.includes
includes(a, x) == \E i \in 1..Len(a) : a[i] = x

\* JavaScript truthiness of a tool-selection parameter: undefined and the
\* empty string are falsy, every array (the empty one too) is truthy.
Truthy(p) == p.kind = "array" \/ (p.kind = "string" /\ Len(p.val) > 0)

SeqToSet(a) == {a[i] : i \in 1..Len(a)}

----------------------------------------------------------------------------
(* Server instantiation: the default export of index.ts *)

toolsParamNullish(cfg) == IF cfg.tools.kind # "absent" THEN cfg.tools ELSE cfg.enabledTools

\* const toolsParam = config.tools || config.enabledTools
toolsParam(cfg) == IF Truthy(cfg.tools) THEN cfg.tools ELSE cfg.enabledTools

\* The parsing of a string selection, index.ts:71-74.
parseString(s) ==
    LET pieces == split(s)
        trimmed == [i \in 1..Len(pieces) |-> trim(pieces[i])]
    IN  SelectSeq(trimmed, LAMBDA tool : Len(tool) > 0)

\* parsedEnabledTools, index.ts:64-78.  defined = FALSE is undefined.
normalize(cfg) ==
    LET tp == toolsParam(cfg)
    IN  IF Truthy(tp)
        THEN IF tp.kind = "string"
             THEN [defined |-> TRUE, list |-> parseString(tp.val)]
             ELSE [defined |-> TRUE, list |-> tp.val]
        ELSE [defined |-> FALSE, list |-> <<>>]

shouldRegisterToolFallbackOnNoMatch(enabledTools, toolId) ==
    IF /\ enabledTools.defined
       /\ \E id \in DOMAIN availableTools : includes(enabledTools.list, <<id>>)
    THEN includes(enabledTools.list, <<toolId>>)
    ELSE IF toolId \in DOMAIN availableTools
         THEN availableTools[toolId].enabled
         ELSE FALSE

shouldRegisterToolDefaultsToo(enabledTools, toolId) ==
    \/ enabledTools.defined /\ Len(enabledTools.list) > 0
                            /\ includes(enabledTools.list, <<toolId>>)
    \/ toolId \in DOMAIN availableTools /\ availableTools[toolId].enabled

\* shouldRegisterTool, index.ts:103-108
shouldRegisterTool(enabledTools, toolId) ==
    IF enabledTools.defined /\ Len(enabledTools.list) > 0
    THEN includes(enabledTools.list, <<toolId>>)
    ELSE IF toolId \in DOMAIN availableTools
         THEN availableTools[toolId].enabled
         ELSE FALSE

\* The order of the registration chain, index.ts:113-146.
RegistrationChain ==
    <<"web_search_exa", "company_research_exa", "crawling_exa", "linkedin_search_exa",
      "deep_researcher_start", "deep_researcher_check", "get_code_context_exa">>

registerToolsPerListedId(enabledTools) ==
    IF enabledTools.defined /\ Len(enabledTools.list) > 0
    THEN LET known == SelectSeq(enabledTools.list,
                          LAMBDA tool : Len(tool) = 1 /\ tool[1] \in DOMAIN availableTools)
         IN  [k \in 1..Len(known) |-> known[k][1]]
    ELSE SelectSeq(RegistrationChain, LAMBDA toolId : shouldRegisterTool(enabledTools, toolId))

\* The tools the chain pushes on registeredTools, in order.
registerTools(enabledTools) ==
    SelectSeq(RegistrationChain, LAMBDA toolId : shouldRegisterTool(enabledTools, toolId))

registerFunctionCrossed(toolId) ==
    CASE toolId = "web_search_exa" -> "registerWebSearchTool"
      [] toolId = "company_research_exa" -> "registerCompanyResearchTool"
      [] toolId = "crawling_exa" -> "registerLinkedInSearchTool"
      [] toolId = "linkedin_search_exa" -> "registerCrawlingTool"
      [] toolId = "deep_researcher_start" -> "registerDeepResearchStartTool"
      [] toolId = "deep_researcher_check" -> "registerDeepResearchCheckTool"
      [] toolId = "get_code_context_exa" -> "registerExaCodeTool"

\* The function each guard of the registration chain calls, index.ts:113-146.
registerFunction(toolId) ==
    CASE toolId = "web_search_exa" -> "registerWebSearchTool"
      [] toolId = "company_research_exa" -> "registerCompanyResearchTool"
      [] toolId = "crawling_exa" -> "registerCrawlingTool"
      [] toolId = "linkedin_search_exa" -> "registerLinkedInSearchTool"
      [] toolId = "deep_researcher_start" -> "registerDeepResearchStartTool"
      [] toolId = "deep_researcher_check" -> "registerDeepResearchCheckTool"
      [] toolId = "get_code_context_exa" -> "registerExaCodeTool"

\* The name a registration function passes to server.tool when its module
\* is not at hand: the stable id of its capability.
stableToolName(fn) ==
    CASE fn = "registerWebSearchTool" -> "web_search_exa"
      [] fn = "registerCompanyResearchTool" -> "company_research_exa"
      [] fn = "registerCrawlingTool" -> "crawling_exa"
      [] fn = "registerLinkedInSearchTool" -> "linkedin_search_exa"
      [] fn = "registerDeepResearchStartTool" -> "deep_researcher_start"
      [] fn = "registerDeepResearchCheckTool" -> "deep_researcher_check"

\* The name a registration function passes to server.tool.
exposedName(fn) ==
    CASE fn = "registerExaCodeTool" -> "get_code_context_exa"
      [] fn = "registerDeepSearchTool" -> "deep_search_exa"
      [] OTHER -> stableToolName(fn)

\* The server.tool calls of the registration chain, in order.
bindTools(registered) ==
    [k \in 1..Len(registered) |-> exposedName(registerFunction(registered[k]))]

\* A step of the default export that calls code outside index.ts and may
\* throw: log, new McpServer, the k-th register*Tool call, server.prompt,
\* server.resource.
NoFault == [step |-> "none", at |-> 0]
FaultPoints(active) ==
    {[step |-> st, at |-> 0] : st \in {"log", "server", "prompt", "resource"}}
    \cup {[step |-> "tool", at |-> k] : k \in 1..Len(active)}

\* The registrations completed when the step throws.
registeredBefore(active, f) ==
    CASE f.step \in {"log", "server"} -> <<>>
      [] f.step = "tool" -> SubSeq(active, 1, f.at - 1)
      [] OTHER -> active

\* return server.server, index.ts:301
returnServer == [phase |-> "ready", returned |-> "server", errorLog |-> <<>>]

catchBlockSwallowing(f) ==
    [phase |-> "ready", returned |-> "server",
     errorLog |-> <<"Server initialization error: ", f.step>>]

\* The catch block, index.ts:303-306: logs the error and rethrows it.
catchBlock(f) ==
    [phase |-> "failed", returned |-> "throw",
     errorLog |-> <<"Server initialization error: ", f.step>>]

\* One call of the default export with a config drawn from configs.
CreateServerWith(configs) ==
    /\ phase = "start"
    /\ \E cfg \in configs :
          LET enabledTools == normalize(cfg)
              active == registerTools(enabledTools)
          IN  \E f \in FaultPoints(active) \cup {NoFault} :
                LET done == registeredBefore(active, f)
                    end == IF f = NoFault THEN returnServer ELSE catchBlock(f)
                IN  /\ config' = cfg
                    /\ parsedEnabledTools' = enabledTools
                    /\ registeredTools' = done
                    /\ boundTools' = bindTools(done)
                    /\ fault' = f
                    /\ phase' = end.phase
                    /\ returned' = end.returned
                    /\ errorLog' = end.errorLog
    /\ UNCHANGED <<toolsList, handlerVars, researchVars, processVars>>

\* One call of the default export with a config accepted by configSchema.
CreateServer == CreateServerWith(configSchema)

\* Object.entries(availableTools): the ids in insertion order, index.ts:33-41.
DescriptorOrder ==
    <<"web_search_exa", "get_code_context_exa", "crawling_exa", "deep_researcher_start",
      "deep_researcher_check", "linkedin_search_exa", "company_research_exa">>

NeverRead == [contents |-> <<>>, readAfter |-> 0]

toolsListEntryFromDescriptor(id, registered) ==
    [id |-> id, enabled |-> availableTools[id].enabled]

\* One entry of the tools_list resource, index.ts:200-205 (name and
\* description are those of the descriptor).
toolsListEntry(id, registered) == [id |-> id, enabled |-> includes(registered, id)]

\* The handler of the tools_list resource, index.ts:199-214.  readAfter is
\* the number of tool invocations that had returned when it ran.
ReadToolsList ==
    /\ phase = "ready"
    /\ toolsList' =
          [contents |-> [k \in 1..Len(DescriptorOrder) |->
                            toolsListEntry(DescriptorOrder[k], registeredTools)],
           readAfter |-> Cardinality({id \in DOMAIN inv : inv[id].pc = "done"})]
    /\ UNCHANGED <<phase, config, parsedEnabledTools, registeredTools, boundTools,
                   fault, returned, errorLog, handlerVars, researchVars, processVars>>

RegInit ==
    /\ phase = "start"
    /\ config = [tools |-> Absent, enabledTools |-> Absent]
    /\ parsedEnabledTools = [defined |-> FALSE, list |-> <<>>]
    /\ registeredTools = <<>>
    /\ boundTools = <<>>
    /\ fault = NoFault
    /\ returned = "none"
    /\ errorLog = <<>>
    /\ toolsList = NeverRead

----------------------------------------------------------------------------
(* Several calls of the default export in one process.  availableTools is *)
(* one object of the module, shared by every call.                        *)

MaxInstances == 3   \* calls of the default export in one process

\* The configs tried for repeated instantiation.
ProcessConfigs ==
    {[tools |-> Absent, enabledTools |-> Absent],
     [tools |-> StringParam(<<"crawling_exa">>), enabledTools |-> Absent],
     [tools |-> ArrayParam(<< <<"deep_researcher_start">>, <<"bogus_tool">> >>), enabledTools |-> Absent],
     [tools |-> StringParam(ReadmeCodeSearch), enabledTools |-> Absent],
     [tools |-> StringParam(<<>>), enabledTools |-> StringParam(<<"crawling_exa">>)],
     [tools |-> StringParam(OnlySeparators), enabledTools |-> Absent]}

\* availableTools[toolId]?.enabled ?? false, index.ts:107
enabledIn(table, toolId) ==
    IF toolId \in DOMAIN table THEN table[toolId].enabled ELSE FALSE

\* shouldRegisterTool, reading the table of the process.
shouldRegisterToolIn(table, enabledTools, toolId) ==
    IF enabledTools.defined /\ Len(enabledTools.list) > 0
    THEN includes(enabledTools.list, <<toolId>>)
    ELSE enabledIn(table, toolId)

tableAfterEnablingSelected(table, enabledTools) ==
    [id \in DOMAIN table |->
        [enabled |-> table[id].enabled
                     \/ (enabledTools.defined /\ includes(enabledTools.list, <<id>>))]]

\* availableTools after a call of the default export: the call only reads
\* it (index.ts:107, 200).
tableAfter(table, enabledTools) == table

\* One call of the default export in a process that may have made others.
Instantiate ==
    /\ Len(instances) < MaxInstances
    /\ \E cfg \in ProcessConfigs :
          LET enabledTools == normalize(cfg)
              registered == SelectSeq(RegistrationChain,
                                LAMBDA toolId : shouldRegisterToolIn(toolTable, enabledTools, toolId))
          IN  /\ instances' = Append(instances, [config |-> cfg, registeredTools |-> registered])
              /\ toolTable' = tableAfter(toolTable, enabledTools)
    /\ UNCHANGED <<regVars, handlerVars, researchVars>>

ProcessInit ==
    /\ toolTable = availableTools
    /\ instances = <<>>

----------------------------------------------------------------------------
(* JavaScript values crossing the remote boundary *)

Undefined == [t |-> "undefined", s |-> <<>>, items |-> <<>>]
JStr(str) == [t |-> "string", s |-> str, items |-> <<>>]
JArr(elems) == [t |-> "array", s |-> <<>>, items |-> elems]
JObj(text) == [t |-> "object", s |-> text, items |-> <<>>]

\* Truthiness: undefined and the empty string are falsy, objects and
\* arrays (empty ones too) are truthy.
truthy(v) ==
    CASE v.t = "undefined" -> FALSE
      [] v.t = "string" -> Len(v.s) > 0
      [] OTHER -> TRUE

\* JSON.stringify(v, null, 2): undefined stays undefined, a string is
\* quoted, an array or object is written out.
RECURSIVE joinItems(_)
joinItems(elems) ==
    IF Len(elems) = 0 THEN <<>>
    ELSE IF Len(elems) = 1 THEN <<"\"", elems[1], "\"">>
    ELSE <<"\"", elems[1], "\"", ",">> \o joinItems(Tail(elems))

stringify(v) ==
    CASE v.t = "undefined" -> Undefined
      [] v.t = "string" -> JStr(<<"\"">> \o v.s \o <<"\"">>)
      [] v.t = "array" -> JStr(<<"[">> \o joinItems(v.items) \o <<"]">>)
      [] v.t = "object" -> JStr(<<"{">> \o v.s \o <<"}">>)

\* JSON.stringify of a response body: absent properties are left out.
stringifyData(data) ==
    LET field(name, v) ==
            IF v.t = "undefined" THEN <<>> ELSE <<name, ":">> \o stringify(v).s \o <<";">>
    IN  JStr(<<"{">> \o field("response", data.response) \o field("results", data.results)
                   \o field("context", data.context) \o <<"}">>)

----------------------------------------------------------------------------
(* What the remote call of one invocation can do *)

\* response.data of a 2xx response.  hasData = FALSE is a falsy body.
NoData == [hasData |-> FALSE, response |-> Undefined, results |-> Undefined, context |-> Undefined]

ResponseFields == {Undefined, JStr(<<>>), JStr(<<"useState example">>), JObj(<<"snippets">>)}
ResultsFields == {Undefined, JArr(<<>>), JArr(<<"result-1">>)}
ContextFields == {Undefined, JStr(<<>>), JStr(<<"page context">>)}

Bodies ==
    {NoData} \cup
    [hasData : {TRUE}, response : ResponseFields, results : ResultsFields, context : ContextFields]

\* HTTP statuses axios rejects with (validateStatus: outside 2xx).
ErrorStatuses == {401, 429, 500}

NoMessage == <<>>

\* error.response.data.message of a rejected response, NoMessage when absent.
RemoteMessages == {NoMessage, <<"Invalid API key">>}

\* Why an AxiosError carries no response.
TransportFailures == {"timeout", "dns"}

\* Non-axios values thrown inside the try block: an Error instance
\* (isErrorInstance, message) or any other value (its String(...)).
Exceptions ==
    [isErrorInstance : BOOLEAN, message : {<<"Converting circular structure to JSON">>}]

NoOutcome == [kind |-> "none", status |-> 0, message |-> <<>>, data |-> NoData, isErrorInstance |-> FALSE]
Response(data) == [kind |-> "response", status |-> 200, message |-> <<>>, data |-> data, isErrorInstance |-> FALSE]
HttpError(status, msg) == [kind |-> "http_error", status |-> status, message |-> msg, data |-> NoData, isErrorInstance |-> TRUE]
NoResponse(msg) == [kind |-> "no_response", status |-> 0, message |-> msg, data |-> NoData, isErrorInstance |-> TRUE]
Exception(ex) == [kind |-> "exception", status |-> 0, message |-> ex.message, data |-> NoData, isErrorInstance |-> ex.isErrorInstance]

----------------------------------------------------------------------------
(* The capability handlers *)

Invocations == {"i1", "i2"}

\* exaCode: src/tools/exaCode.ts; deepSearch: src/tools/deepSearch.ts;
\* deepSearchContext: the deep_search_exa handler that returns the context.
Handlers == {"exaCode", "deepSearch", "deepSearchContext"}

TextBlock(text) == [type |-> "text", text |-> text]

\* A handler's promise resolves with a result (isError = FALSE stands for
\* a result without the isError key) or rejects.
Return(text, isError) == [kind |-> "return", content |-> <<TextBlock(text)>>, isError |-> isError]
Throw == [kind |-> "throw", content |-> <<>>, isError |-> FALSE]
Pending == [kind |-> "pending", content |-> <<>>, isError |-> FALSE]

ErrorPrefix(handler) ==
    IF handler = "exaCode" THEN "Code search error" ELSE "Deep search error"

ErrorSuffix(handler) ==
    IF handler = "exaCode" THEN <<". Please check your query and try again.">> ELSE <<>>

NothingFoundText(handler) ==
    CASE handler = "exaCode" ->
           JStr(<<"No code snippets or documentation found. Please try a different query, be more specific about the library or programming concept, or check the spelling of framework names.">>)
      [] handler = "deepSearch" ->
           JStr(<<"No search results found. Please try a different query or adjust your search parameters.">>)
      [] handler = "deepSearchContext" ->
           JStr(<<"No search results found. Please try a different query.">>)

timeoutNone(handler) == 0

\* The timeout each handler sets on its axios instance and on the post,
\* in milliseconds.
timeout(handler) == IF handler = "exaCode" THEN 30000 ELSE 25000

\* error.message of an AxiosError that carries no response.
transportMessage(handler, cause) ==
    IF cause = "timeout"
    THEN <<"timeout of ", ToString(timeout(handler)), "ms exceeded">>
    ELSE <<"getaddrinfo ENOTFOUND api.exa.ai">>

\* The empty-result test of each handler.
isEmptyResponse(handler, data) ==
    CASE handler = "exaCode" -> ~data.hasData
      [] handler = "deepSearch" ->
           \/ ~data.hasData
           \/ ~truthy(data.results)
           \/ (data.results.t = "array" /\ Len(data.results.items) = 0)
      [] handler = "deepSearchContext" -> ~data.hasData \/ ~truthy(data.context)

\* The text of a non-empty successful response.
successText(handler, data) ==
    CASE handler = "exaCode" ->
           IF data.response.t = "string" THEN data.response ELSE stringify(data.response)
      [] handler = "deepSearch" -> stringifyData(data)
      [] handler = "deepSearchContext" -> data.context

onResponseEmptyIsError(handler, data) ==
    IF isEmptyResponse(handler, data)
    THEN Return(NothingFoundText(handler), TRUE)
    ELSE Return(successText(handler, data), FALSE)

\* The try block after the awaited post resolved.
onResponse(handler, data) ==
    IF isEmptyResponse(handler, data)
    THEN Return(NothingFoundText(handler), FALSE)
    ELSE Return(successText(handler, data), FALSE)

\* const statusCode = error.response?.status || 'unknown'
statusCodeAlwaysUnknown(error) == "unknown"

statusCode(error) ==
    IF error.kind = "http_error" /\ error.status # 0 THEN ToString(error.status) ELSE "unknown"

\* const errorMessage = error.response?.data?.message || error.message
errorMessage(error) ==
    IF error.kind = "http_error"
    THEN IF Len(error.message) > 0 THEN error.message
         ELSE <<"Request failed with status code ", ToString(error.status)>>
    ELSE error.message

onErrorRethrowsGeneric(handler, error) ==
    IF error.kind \in {"http_error", "no_response"}
    THEN Return(JStr(<<ErrorPrefix(handler), " (", statusCode(error), "): ">>
                     \o errorMessage(error) \o ErrorSuffix(handler)), TRUE)
    ELSE Throw

\* The catch block.
onError(handler, error) ==
    IF error.kind \in {"http_error", "no_response"}
    THEN Return(JStr(<<ErrorPrefix(handler), " (", statusCode(error), "): ">>
                     \o errorMessage(error) \o ErrorSuffix(handler)), TRUE)
    ELSE Return(JStr(<<ErrorPrefix(handler), ": ">> \o error.message), TRUE)

IdleInvocation ==
    [pc |-> "idle", handler |-> "none", requests |-> 0, outcome |-> NoOutcome, completion |-> Pending]

settleRetrying(i, outcome) ==
    IF outcome.kind = "response"
    THEN [i EXCEPT !.pc = "done", !.outcome = outcome,
                   !.completion = onResponse(i.handler, outcome.data)]
    ELSE IF i.requests < 2
         THEN [i EXCEPT !.requests = i.requests + 1]
         ELSE [i EXCEPT !.pc = "done", !.outcome = outcome,
                        !.completion = onError(i.handler, outcome)]

\* The handler from the point where the awaited post settles to its return.
settle(i, outcome) ==
    IF outcome.kind = "response"
    THEN [i EXCEPT !.pc = "done", !.outcome = outcome,
                   !.completion = onResponse(i.handler, outcome.data)]
    ELSE [i EXCEPT !.pc = "done", !.outcome = outcome,
                   !.completion = onError(i.handler, outcome)]

completeSharedClient(invs, id, outcome) ==
    [j \in DOMAIN invs |->
        IF j = id \/ (outcome.kind # "response" /\ invs[j].pc = "awaiting")
        THEN settle(invs[j], outcome) ELSE invs[j]]

\* The awaited post of invocation id settles and its handler runs to its
\* return: the axios instance, the request and the result are locals of
\* that call, so no other invocation is touched.
complete(invs, id, outcome) == [invs EXCEPT ![id] = settle(@, outcome)]

\* The handler is called: it builds its own axios instance and posts one
\* request, then awaits the response.
Invoke(id, handler) ==
    /\ inv[id].pc = "idle"
    /\ inv' = [inv EXCEPT ![id] = [@ EXCEPT !.pc = "awaiting", !.handler = handler,
                                             !.requests = 1]]
    /\ UNCHANGED <<regVars, researchVars, processVars>>

\* The remote endpoint answers with a 2xx status.
Resolve(id) ==
    /\ inv[id].pc = "awaiting"
    /\ \E data \in Bodies : inv' = complete(inv, id, Response(data))
    /\ UNCHANGED <<regVars, researchVars, processVars>>

\* The remote endpoint answers with a status outside 2xx.
RejectStatus(id) ==
    /\ inv[id].pc = "awaiting"
    /\ \E status \in ErrorStatuses, msg \in RemoteMessages :
          inv' = complete(inv, id, HttpError(status, msg))
    /\ UNCHANGED <<regVars, researchVars, processVars>>

\* The timeout of the request expires before a response arrives (axios
\* arms a timer only for a timeout above 0).
TimeoutExpires(id) ==
    /\ inv[id].pc = "awaiting"
    /\ timeout(inv[id].handler) > 0
    /\ inv' = complete(inv, id, NoResponse(transportMessage(inv[id].handler, "timeout")))
    /\ UNCHANGED <<regVars, researchVars, processVars>>

\* The connection fails: DNS failure, connection reset.
ConnectionFails(id) ==
    /\ inv[id].pc = "awaiting"
    /\ \E cause \in TransportFailures \ {"timeout"} :
          inv' = complete(inv, id, NoResponse(transportMessage(inv[id].handler, cause)))
    /\ UNCHANGED <<regVars, researchVars, processVars>>

\* No response is received: timeout, DNS failure, connection reset.
RejectTransport(id) == TimeoutExpires(id) \/ ConnectionFails(id)

\* A value that is no AxiosError is thrown inside the try block.
RaiseException(id) ==
    /\ inv[id].pc = "awaiting"
    /\ \E ex \in Exceptions : inv' = complete(inv, id, Exception(ex))
    /\ UNCHANGED <<regVars, researchVars, processVars>>

HandlerInit == inv = [id \in Invocations |-> IdleInvocation]

----------------------------------------------------------------------------
(* The two-phase research workflow: deep_researcher_start submits a task  *)
(* to the remote endpoint, deep_researcher_check polls it.  The task and  *)
(* its status live on the remote endpoint.                                *)

MaxPolls == 3       \* Poll calls recorded per task id

TaskIds == {"task-1", "task-2"}

TaskStatusWithCancelled == {"running", "completed", "failed", "cancelled"}

\* DeepResearchCheckResponse.status
TaskStatus == {"running", "completed", "failed"}

\* The research tools the server registers.
ResearchTools == {"deep_researcher_start", "deep_researcher_check"}

NoTask == "none"

\* DeepResearchCheckResponse.data: absent, or an object with an optional
\* report and further properties (name, string value) in their order; a name
\* and a value are sequences of characters.
NoPayload == [present |-> FALSE, report |-> Undefined, fields |-> <<>>]
Payload(report, fields) == [present |-> TRUE, report |-> report, fields |-> fields]

Reports == {<<"Final research report">>, <<>>}

FieldLists ==
    {<<>>,
     << <<<<"summary">>, <<"done">>>> >>,
     << <<<<"summary">>, <<"say ", "\"", "hi", "\"">>>>, <<<<"path">>, <<"a", "\\", "b", ",", "c">>>> >>}

\* The data a completed task can carry.
CompletedPayloads ==
    {NoPayload}
    \cup {Payload(JStr(x), <<>>) : x \in Reports}
    \cup {Payload(Undefined, f) : f \in FieldLists}

snapshotOfOnce(t) ==
    IF Len(polls[t]) > 0 /\ polls[t][Len(polls[t])] = tasks[t]
    THEN [status |-> tasks[t], data |-> NoPayload]
    ELSE [status |-> tasks[t], data |-> payload[t]]

\* The snapshot the remote endpoint reports for a task.
snapshotOf(t) == [status |-> tasks[t], data |-> payload[t]]

escapeNothing(str) == str

\* JSON string escaping: a quote and a backslash get a backslash in front.
RECURSIVE escape(_)
escape(str) ==
    IF Len(str) = 0 THEN <<>>
    ELSE IF Head(str) \in {"\"", "\\"} THEN <<"\\", Head(str)>> \o escape(Tail(str))
    ELSE <<Head(str)>> \o escape(Tail(str))

quote(str) == <<"\"">> \o escape(str) \o <<"\"">>

RECURSIVE serializeFields(_)
serializeFields(fields) ==
    IF Len(fields) = 0 THEN <<>>
    ELSE quote(fields[1][1]) \o <<":">> \o quote(fields[1][2])
         \o (IF Len(fields) > 1 THEN <<",">> ELSE <<>>) \o serializeFields(Tail(fields))

\* The serialization of the data object; absent data is written as the
\* empty object.
serialize(data) == <<"{">> \o serializeFields(data.fields) \o <<"}">>

completedTextReportIfTruthy(data) ==
    IF data.report.t = "string" /\ Len(data.report.s) > 0 THEN data.report.s ELSE serialize(data)

\* The text of a completed task: its report, else the serialized data.
completedText(data) ==
    IF data.report.t = "string" THEN data.report.s ELSE serialize(data)

NotReadyText == <<"Research task is still running, not ready yet">>

failedTextGuessingReason(snapshot) == <<"Research task failed", ": ", "the research timed out">>

\* The text of a failed task: the snapshot carries no diagnostic field.
failedText(snapshot) == <<"Research task failed", ", no further detail">>

pollResultRunningAsFailed(snapshot) ==
    IF snapshot.status = "completed"
    THEN Return(JStr(completedText(snapshot.data)), FALSE)
    ELSE Return(JStr(failedText(snapshot)), TRUE)

\* The InvocationResult of a Poll that received a snapshot.
pollResult(snapshot) ==
    CASE snapshot.status = "running" -> Return(JStr(NotReadyText), FALSE)
      [] snapshot.status = "completed" -> Return(JStr(completedText(snapshot.data)), FALSE)
      [] OTHER -> Return(JStr(failedText(snapshot)), TRUE)

\* The InvocationResult of a Submit or Poll whose request failed.
failureResult(tool, error) ==
    Return(JStr(<<tool, " error (", statusCode(error), "): ">> \o errorMessage(error)), TRUE)

\* The failures of a research request: RemoteRejected and Unreachable.
ResearchFailures ==
    {HttpError(500, <<"Internal server error">>), NoResponse(<<"timeout of 25000ms exceeded">>)}

NoPoll == [task |-> "none", kind |-> "none", status |-> "none", data |-> NoPayload,
           result |-> Pending]
NoSubmit == [kind |-> "none", requests |-> 0, taskId |-> "none", result |-> Pending]

submitRequestsRetrying(error) == 2

\* The requests a failing Submit issues: one, no retry.
submitRequests(error) == 1

reportedStatusCached(t, snapshot) ==
    IF Len(polls[t]) > 0 THEN polls[t][Len(polls[t])] ELSE snapshot.status

\* The status a Poll reports: the one of the snapshot it fetched.
reportedStatus(t, snapshot) == snapshot.status

\* Submit: the remote endpoint creates the task, which starts running, and
\* returns its id.
SubmitAccepted(t) ==
    /\ tasks[t] = NoTask
    /\ tasks' = [tasks EXCEPT ![t] = "running"]
    /\ lastSubmit' = [kind |-> "accepted", requests |-> 1, taskId |-> t,
                      result |-> Return(JStr(<<"Research task started: ", t>>), FALSE)]
    /\ lastOp' = "deep_researcher_start"
    /\ UNCHANGED <<polls, payload, lastPoll>>

\* Submit: the request is rejected or gets no response; no task exists.
SubmitFailed(t) ==
    /\ tasks[t] = NoTask
    /\ \E error \in ResearchFailures :
          lastSubmit' = [kind |-> error.kind, requests |-> submitRequests(error),
                         taskId |-> "none",
                         result |-> failureResult("deep_researcher_start", error)]
    /\ lastOp' = "deep_researcher_start"
    /\ UNCHANGED <<tasks, polls, payload, lastPoll>>

Submit(t) == SubmitAccepted(t) \/ SubmitFailed(t)

\* Poll: fetches the snapshot the remote endpoint reports for the task.
PollAnswered(t) ==
    /\ tasks[t] # NoTask
    /\ Len(polls[t]) < MaxPolls
    /\ LET snapshot == snapshotOf(t)
           status == reportedStatus(t, snapshot)
       IN  /\ polls' = [polls EXCEPT ![t] = Append(@, status)]
           /\ lastPoll' = [task |-> t, kind |-> "snapshot", status |-> status,
                           data |-> snapshot.data,
                           result |-> pollResult([snapshot EXCEPT !.status = status])]
    /\ lastOp' = "deep_researcher_check"
    /\ UNCHANGED <<tasks, payload, lastSubmit>>

\* Poll: the request is rejected or gets no response.
PollFailed(t) ==
    /\ tasks[t] # NoTask
    /\ \E error \in ResearchFailures :
          lastPoll' = [task |-> t, kind |-> error.kind, status |-> "none", data |-> NoPayload,
                       result |-> failureResult("deep_researcher_check", error)]
    /\ lastOp' = "deep_researcher_check"
    /\ UNCHANGED <<tasks, polls, payload, lastSubmit>>

Poll(t) == PollAnswered(t) \/ PollFailed(t)

\* One call of a registered research tool on a task id.
ClientCall(tool, t) ==
    /\ CASE tool = "deep_researcher_start" -> Submit(t)
          [] tool = "deep_researcher_check" -> Poll(t)
    /\ UNCHANGED <<regVars, handlerVars, processVars>>

\* The remote endpoint finishes a running task: it completes, with or
\* without data, or fails.
RemoteFinish(t) ==
    /\ tasks[t] = "running"
    /\ \E status \in TaskStatus \ {"running"} :
          /\ tasks' = [tasks EXCEPT ![t] = status]
          /\ IF status = "completed"
             THEN \E data \in CompletedPayloads : payload' = [payload EXCEPT ![t] = data]
             ELSE payload' = payload
    /\ lastOp' = "remote"
    /\ UNCHANGED <<polls, lastPoll, lastSubmit, regVars, handlerVars, processVars>>

ResearchInit ==
    /\ tasks = [t \in TaskIds |-> NoTask]
    /\ polls = [t \in TaskIds |-> <<>>]
    /\ lastOp = "none"
    /\ payload = [t \in TaskIds |-> NoPayload]
    /\ lastPoll = NoPoll
    /\ lastSubmit = NoSubmit

----------------------------------------------------------------------------
(* Specifications *)

Init == RegInit /\ HandlerInit /\ ResearchInit /\ ProcessInit

\* Server instantiation.
Next == CreateServer
Spec == Init /\ [][Next]_vars

\* Invocations of the capability handlers.
HandlerNext ==
    \E id \in Invocations :
        \/ \E handler \in Handlers : Invoke(id, handler)
        \/ Resolve(id)
        \/ RejectStatus(id)
        \/ RejectTransport(id)
        \/ RaiseException(id)
HandlerSpec == Init /\ [][HandlerNext]_vars

\* The handlers with the timer of each pending request running: the remote
\* endpoint may stay silent, the timeout of a pending request does expire.
HandlerLiveSpec == HandlerSpec /\ \A id \in Invocations : WF_vars(TimeoutExpires(id))

\* The research workflow.
ResearchNext ==
    \E t \in TaskIds :
        \/ \E tool \in ResearchTools : ClientCall(tool, t)
        \/ RemoteFinish(t)
ResearchSpec == Init /\ [][ResearchNext]_vars

\* The configs the running server is instantiated with.
ServerConfigs ==
    {[tools |-> Absent, enabledTools |-> Absent],
     [tools |-> StringParam(<<"crawling_exa">>), enabledTools |-> Absent],
     [tools |-> ArrayParam(<< <<"deep_researcher_start">>, <<"bogus_tool">> >>), enabledTools |-> Absent]}

\* The server from its instantiation on: tool invocations (the modelled
\* handlers stand for the handlers of the bound tools) and reads of the
\* tools_list resource, in any order.
ServerNext ==
    \/ CreateServerWith(ServerConfigs)
    \/ (phase = "ready" /\ Len(boundTools) > 0 /\ HandlerNext)
    \/ ReadToolsList
ServerSpec == Init /\ [][ServerNext]_vars

\* Repeated calls of the default export in one process.
ProcessNext == Instantiate
ProcessSpec == Init /\ [][ProcessNext]_vars

----------------------------------------------------------------------------
(* Vocabulary of the registry properties, stated without the operators the *)
(* default export is modelled with.                                        *)

\* The tools whose descriptor has enabled = true.
DefaultEnabled == {id \in KnownIds : availableTools[id].enabled}

Blank(s) == \A i \in 1..Len(s) : s[i] = " "

\* The selections of a config that supplies one of the two parameters only.
SoleSelection(cfg) ==
    IF cfg.enabledTools.kind = "absent" THEN {cfg.tools}
    ELSE IF cfg.tools.kind = "absent" THEN {cfg.enabledTools}
    ELSE {}

\* The selection holds no identifier once split on commas, trimmed and
\* cleared of empty pieces.
NormalizesToEmpty(p) ==
    CASE p.kind = "absent" -> TRUE
      [] p.kind = "string" -> \A i \in 1..Len(p.val) : p.val[i] \in {",", " "}
      [] p.kind = "array"  -> \A i \in 1..Len(p.val) : Blank(p.val[i])

\* The identifiers a delimited string lists: the comma-free runs between
\* two separators (or the ends), without their surrounding whitespace.
IdsOfString(s) ==
    {SubSeq(s, ab[1], ab[2]) : ab \in
        {ab \in (1..Len(s)) \X (1..Len(s)) :
            /\ ab[1] <= ab[2]
            /\ \A k \in ab[1]..ab[2] : s[k] # ","
            /\ s[ab[1]] # " " /\ s[ab[2]] # " "
            /\ \E lo \in 1..ab[1], hi \in ab[2]..Len(s) :
                  /\ (lo = 1 \/ s[lo - 1] = ",")
                  /\ (hi = Len(s) \/ s[hi + 1] = ",")
                  /\ \A k \in lo..(ab[1] - 1) : s[k] = " "
                  /\ \A k \in (ab[2] + 1)..hi : s[k] = " "}}

\* The identifiers a selection lists: those of a string, the elements of an
\* array as supplied.
ListedIds(p) ==
    CASE p.kind = "absent" -> {}
      [] p.kind = "string" -> IdsOfString(p.val)
      [] p.kind = "array"  -> SeqToSet(p.val)

Registered == SeqToSet(registeredTools)

----------------------------------------------------------------------------
(* C1: every configuration whose tool selection normalizes (split on      *)
(* commas, trim, drop empty pieces) to an empty list registers exactly    *)
(* the tools whose descriptor has enabled = true, as a configuration      *)
(* with no tool selection does.                                           *)
C1_EmptySelectionRegistersDefaults ==
    phase = "ready" =>
        \A p \in SoleSelection(config) :
            NormalizesToEmpty(p) => Registered = DefaultEnabled

(* C2: when the tool selection lists ids, the registered tools are        *)
(* exactly the listed ids that are known descriptors; unknown ids are     *)
(* dropped, and no id outside the descriptor table is ever registered.    *)
C2_RegisteredAreListedKnownIds ==
    phase = "ready" =>
        /\ Registered \subseteq KnownIds
        /\ \A p \in SoleSelection(config) :
              ListedIds(p) # {} =>
                  Registered = {id \in KnownIds : <<id>> \in ListedIds(p)}

C2_Witness ==
    /\ phase = "ready"
    /\ \E p \in SoleSelection(config) :
          /\ \E id \in KnownIds : <<id>> \in ListedIds(p)
          /\ <<"bogus_tool">> \in ListedIds(p)
    /\ registeredTools = <<"web_search_exa">>

(* C3: a selection supplied as a sequence L and the same selection        *)
(* supplied as the string joining L with commas register the same set of  *)
(* tools, also when elements of L carry whitespace or are empty.          *)
C3_ArrayAndJoinedStringAgree ==
    (phase = "ready" /\ config.tools.kind = "array" /\ config.enabledTools.kind = "absent") =>
        Registered =
            SeqToSet(registerTools(normalize(
                [tools |-> StringParam(join(config.tools.val)), enabledTools |-> Absent])))

C5_ReadmeSelectionRegistersAllSeven ==
    (phase = "ready" /\ config.tools.kind = "string" /\ config.enabledTools.kind = "absent"
        /\ Len(config.tools.val) = Len(ReadmeAllTools)
        /\ config.tools.val = ReadmeAllTools) =>
        Cardinality(Registered) = 7

----------------------------------------------------------------------------
(* Vocabulary of the handler properties *)

FailureKinds == {"http_error", "no_response", "exception"}

Done(id) == inv[id].pc = "done"
Failed(id) == Done(id) /\ inv[id].outcome.kind \in FailureKinds

\* The text of the first content block of a returned result.
TextOf(id) == inv[id].completion.content[1].text

\* A successful response with no data, no results (for the context variant:
\* no context) or an empty results list.
StructurallyEmpty(handler, data) ==
    \/ ~data.hasData
    \/ handler = "deepSearch" /\ data.results.t = "undefined"
    \/ handler = "deepSearch" /\ data.results.t = "array" /\ data.results.items = <<>>
    \/ handler = "deepSearchContext" /\ data.context.t = "undefined"

FoundNothing(id) ==
    /\ Done(id)
    /\ inv[id].outcome.kind = "response"
    /\ StructurallyEmpty(inv[id].handler, inv[id].outcome.data)

\* The token an error text carries between "(" and "):", "none" without one.
StatusSlot(text) == IF Len(text) >= 4 /\ text[2] = " (" /\ text[4] = "): " THEN text[3] ELSE "none"

StatusTokens == {ToString(st) : st \in ErrorStatuses} \cup {"unknown"}

(* C6: a handler never lets a failure escape as an exception: after a     *)
(* non-success status, a transport failure or a non-HTTP exception it     *)
(* returns a result with isError = true and one textual content block.    *)
C6_FailuresBecomeErrorResults ==
    \A id \in Invocations :
        /\ inv[id].completion.kind # "throw"
        /\ Failed(id) =>
              /\ inv[id].completion.kind = "return"
              /\ inv[id].completion.isError
              /\ Len(inv[id].completion.content) = 1
              /\ inv[id].completion.content[1].type = "text"
              /\ TextOf(id).t = "string"

C6_Witness ==
    /\ Failed("i1") /\ inv["i1"].outcome.kind = "exception" /\ inv["i1"].completion.isError
    /\ Failed("i2") /\ inv["i2"].outcome.kind = "no_response" /\ inv["i2"].completion.isError

(* C7: a successful response with a structurally empty result is reported *)
(* as a 'nothing found' text that is not flagged as an error and differs  *)
(* from every failure result, which is flagged isError = true.            *)
C7_EmptyResultIsBenign ==
    \A id \in Invocations :
        FoundNothing(id) =>
            /\ inv[id].completion.kind = "return"
            /\ ~inv[id].completion.isError
            /\ TextOf(id) = NothingFoundText(inv[id].handler)
            /\ \A other \in Invocations :
                  Failed(other) =>
                      /\ inv[other].completion.isError
                      /\ inv[other].completion # inv[id].completion

C7_Witness ==
    /\ FoundNothing("i1") /\ inv["i1"].handler = "deepSearch"
    /\ inv["i1"].outcome.data.results.t = "array"
    /\ ~inv["i1"].completion.isError
    /\ Failed("i2") /\ inv["i2"].handler = "deepSearch"

(* C8: each invocation issues exactly one request and never retries:      *)
(* after a failed request no further request is issued before the result  *)
(* is returned.                                                           *)
C8_ExactlyOneRequest ==
    \A id \in Invocations :
        /\ inv[id].pc = "idle" => inv[id].requests = 0
        /\ inv[id].pc \in {"awaiting", "done"} => inv[id].requests = 1
        /\ inv[id].pc = "awaiting" => inv[id].outcome.kind = "none"

C8_Witness ==
    \E id \in Invocations :
        Failed(id) /\ inv[id].requests = 1 /\ inv[id].completion.kind = "return"

(* C9: a failure message embeds the remote HTTP status code whenever the  *)
(* endpoint returned one, carries 'unknown' in its place when no response *)
(* was received, and carries no status code after a non-HTTP failure.     *)
C9_FailureMessageCarriesStatus ==
    \A id \in Invocations :
        Failed(id) =>
            /\ inv[id].completion.kind = "return"
            /\ Len(TextOf(id).s) > 0
            /\ inv[id].outcome.kind = "http_error" =>
                  StatusSlot(TextOf(id).s) = ToString(inv[id].outcome.status)
            /\ inv[id].outcome.kind = "no_response" =>
                  StatusSlot(TextOf(id).s) = "unknown"
            /\ inv[id].outcome.kind = "exception" =>
                  /\ StatusSlot(TextOf(id).s) = "none"
                  /\ \A k \in 1..Len(TextOf(id).s) : TextOf(id).s[k] \notin StatusTokens

C9_Witness ==
    /\ Failed("i1") /\ inv["i1"].outcome.kind = "http_error"
    /\ inv["i1"].outcome.message # NoMessage
    /\ StatusSlot(TextOf("i1").s) = "429"
    /\ Failed("i2") /\ inv["i2"].outcome.kind = "no_response"
    /\ StatusSlot(TextOf("i2").s) = "unknown"

----------------------------------------------------------------------------
(* C10: the status of a research task, as observed through any sequence   *)
(* of Poll calls on one task id, follows only the transitions             *)
(* running -> completed and running -> failed; completed and failed are   *)
(* terminal, and no client operation causes a transition.                 *)
C10_ObservedStatusLifecycle ==
    /\ [][\A t \in TaskIds :
            (tasks[t] # NoTask /\ tasks'[t] # tasks[t]) => lastOp' \notin ResearchTools]_vars
    /\ [](\A t \in TaskIds : \A k \in 1..Len(polls[t]) :
            /\ polls[t][k] \in {"running", "completed", "failed"}
            /\ k < Len(polls[t]) =>
                  /\ polls[t][k] \in {"completed", "failed"} => polls[t][k + 1] = polls[t][k]
                  /\ polls[t][k + 1] # polls[t][k] => polls[t][k] = "running")

C10_Witness ==
    /\ polls["task-1"] = <<"running", "completed", "completed">>
    /\ polls["task-2"] = <<"running", "failed">>

----------------------------------------------------------------------------
(* Vocabulary of the research workflow properties. *)

\* The step is a Poll call on task id t that received a snapshot.
PollAnsweredStep(t) ==
    /\ Len(polls'[t]) = Len(polls[t]) + 1
    /\ lastPoll'.task = t /\ lastPoll'.kind = "snapshot"

\* The step is a Poll call.
PollStep == lastOp' = "deep_researcher_check"

\* The step is a Submit call.
SubmitStep == lastOp' = "deep_researcher_start"

\* The previous step was a Poll call on task id t that received a snapshot.
JustPolled(t) ==
    lastOp = "deep_researcher_check" /\ lastPoll.task = t /\ lastPoll.kind = "snapshot"

PollText == lastPoll.result.content[1].text.s
SubmitText == lastSubmit.result.content[1].text.s

PollGot(status) == lastPoll.kind = "snapshot" /\ lastPoll.status = status

\* RemoteRejected and Unreachable.
RequestFailures == {"http_error", "no_response"}

\* A completed snapshot with no data at all.
MalformedSnapshot == PollGot("completed") /\ ~lastPoll.data.present

\* Reads the characters of a JSON string from position i, after its opening
\* quote, up to its closing quote.
RECURSIVE readString(_, _, _)
readString(toks, i, acc) ==
    IF i > Len(toks) THEN [val |-> acc, next |-> i]
    ELSE IF toks[i] = "\"" THEN [val |-> acc, next |-> i + 1]
    ELSE IF toks[i] = "\\" /\ i < Len(toks) THEN readString(toks, i + 2, Append(acc, toks[i + 1]))
    ELSE readString(toks, i + 1, Append(acc, toks[i]))

\* Reads the members "name":"value" of a JSON object from position i.
RECURSIVE readMembers(_, _)
readMembers(toks, i) ==
    IF i > Len(toks) \/ toks[i] # "\"" THEN <<>>
    ELSE LET name == readString(toks, i + 1, <<>>)
             hasValue == /\ name.next + 1 <= Len(toks)
                         /\ toks[name.next] = ":"
                         /\ toks[name.next + 1] = "\""
             value == readString(toks, name.next + 2, <<>>)
             rest == IF value.next <= Len(toks) /\ toks[value.next] = ","
                     THEN value.next + 1 ELSE value.next
         IN  IF hasValue THEN << <<name.val, value.val>> >> \o readMembers(toks, rest)
             ELSE <<>>

\* JSON.parse of the text of an object: its members in their order.
parseObject(text) ==
    IF Len(text) >= 2 /\ text[1] = "{" THEN readMembers(text, 2) ELSE <<>>

IsObjectText(text) == Len(text) >= 2 /\ text[1] = "{" /\ text[Len(text)] = "}"

----------------------------------------------------------------------------
(* C11: Poll is idempotent: two consecutive Poll calls on one task id,      *)
(* with no change on the remote side between them, return snapshots equal  *)
(* in status and data, and a Poll call changes nothing on the client or    *)
(* the remote side beyond recording what it fetched.                        *)
C11_PollIsIdempotent ==
    /\ [][\A t \in TaskIds :
            (JustPolled(t) /\ PollAnsweredStep(t)) =>
                /\ lastPoll'.status = lastPoll.status
                /\ lastPoll'.data = lastPoll.data
                /\ lastPoll'.result = lastPoll.result]_vars
    /\ [][PollStep => (tasks' = tasks /\ payload' = payload /\ lastSubmit' = lastSubmit)]_vars

C11_Witness ==
    /\ JustPolled("task-1")
    /\ polls["task-1"] = <<"completed", "completed">>
    /\ lastPoll.data.present /\ Len(lastPoll.data.fields) > 0

----------------------------------------------------------------------------
(* C12: the client is a pure query: the status a Poll call reports is the   *)
(* status the remote side reported in that call's response, never a cached *)
(* one; the first Poll after the remote side moved a task from running to  *)
(* a terminal status reports that terminal status.                         *)
C12_PollReportsRemoteStatus ==
    [][\A t \in TaskIds :
          PollAnsweredStep(t) =>
              /\ lastPoll'.status = tasks[t]
              /\ polls'[t][Len(polls'[t])] = tasks[t]
              /\ (tasks[t] = "running") = (lastPoll'.result.content[1].text.s = NotReadyText)
              /\ (tasks[t] = "failed") = lastPoll'.result.isError]_vars

C12_Witness ==
    /\ polls["task-1"] = <<"running", "failed">>
    /\ polls["task-2"] = <<"running", "running", "completed">>
    /\ lastPoll.task = "task-2" /\ PollGot("completed")

----------------------------------------------------------------------------
(* C13: every failure of the research workflow - RemoteRejected,           *)
(* Unreachable, MalformedSnapshot (a completed snapshot with no data at    *)
(* all) - produces a result with isError = true, never a success.          *)
C13_ResearchFailuresAreErrors ==
    /\ lastSubmit.kind \in RequestFailures => lastSubmit.result.isError
    /\ lastPoll.kind \in RequestFailures => lastPoll.result.isError
    /\ MalformedSnapshot => lastPoll.result.isError

----------------------------------------------------------------------------
(* C14: a Poll that receives status = completed and data.report = X        *)
(* produces a result whose text is X exactly, for every string X.          *)
C14_CompletedTextIsTheReport ==
    (PollGot("completed") /\ lastPoll.data.report.t = "string") =>
        /\ lastPoll.result.kind = "return"
        /\ ~lastPoll.result.isError
        /\ PollText = lastPoll.data.report.s

C14_Witness ==
    /\ PollGot("completed") /\ lastPoll.data.report.t = "string"
    /\ lastPoll.data.report.s = <<>>
    /\ lastPoll.result.kind = "return"

----------------------------------------------------------------------------
(* C15: a Poll that receives status = completed, no data.report and a      *)
(* structured data object produces the serialization of that object:       *)
(* parsing the text back yields the original object.                       *)
C15_SerializedDataRoundTrips ==
    (PollGot("completed") /\ lastPoll.data.present /\ lastPoll.data.report.t = "undefined") =>
        /\ lastPoll.result.kind = "return"
        /\ ~lastPoll.result.isError
        /\ IsObjectText(PollText)
        /\ parseObject(PollText) = lastPoll.data.fields

C15_Witness ==
    /\ PollGot("completed") /\ lastPoll.data.present /\ lastPoll.data.report.t = "undefined"
    /\ Len(lastPoll.data.fields) = 2
    /\ \E k \in 1..Len(lastPoll.data.fields[1][2]) : lastPoll.data.fields[1][2][k] = "\""
    /\ parseObject(PollText) = lastPoll.data.fields

----------------------------------------------------------------------------
----------------------------------------------------------------------------
(* C17: a Poll that receives status = failed and no diagnostic field       *)
(* produces a result with isError = true whose message says only that the  *)
(* task failed, with no reason the snapshot does not carry.                *)
C17_FailedWithoutFabricatedReason ==
    (PollGot("failed") /\ ~lastPoll.data.present) =>
        /\ lastPoll.result.kind = "return"
        /\ lastPoll.result.isError
        /\ PollText = <<"Research task failed", ", no further detail">>

C17_Witness ==
    /\ PollGot("failed") /\ ~lastPoll.data.present
    /\ lastPoll.result.isError
    /\ polls[lastPoll.task] = <<"failed">>

----------------------------------------------------------------------------
(* C18: a Submit that fails with Unreachable produces a result with        *)
(* isError = true and a descriptive message, issues no second request and  *)
(* creates no task: no task id is returned to the caller.                  *)
C18_UnreachableSubmit ==
    /\ [](lastSubmit.kind = "no_response" =>
            /\ lastSubmit.result.kind = "return"
            /\ lastSubmit.result.isError
            /\ Len(SubmitText) > 0
            /\ lastSubmit.requests = 1
            /\ lastSubmit.taskId = "none")
    /\ [][(SubmitStep /\ lastSubmit'.kind = "no_response") =>
            (tasks' = tasks /\ payload' = payload)]_vars

C18_Witness ==
    /\ lastOp = "deep_researcher_start"
    /\ lastSubmit.kind = "no_response"
    /\ lastSubmit.requests = 1
    /\ \A t \in TaskIds : tasks[t] = NoTask

----------------------------------------------------------------------------
(* C19: concurrent invocations are independent: under every interleaving   *)
(* at the points where a handler awaits its response, a step of one        *)
(* invocation leaves every other invocation as it was, a returned result   *)
(* stays what it is and is the same for the same handler and the same own  *)
(* response, and a failure of one invocation is returned as its result     *)
(* only: nothing is thrown and no other result changes.                    *)
C19_InvocationsAreIndependent ==
    /\ [][\A i, j \in Invocations :
            (i # j /\ inv'[i] # inv[i]) => inv'[j] = inv[j]]_vars
    /\ [][\A i \in Invocations : Done(i) => inv'[i] = inv[i]]_vars
    /\ [](\A i, j \in Invocations :
            /\ Done(i) => inv[i].completion.kind = "return"
            /\ (Done(i) /\ Done(j) /\ inv[i].handler = inv[j].handler
                  /\ inv[i].outcome = inv[j].outcome)
                => inv[i].completion = inv[j].completion)

C19_Witness ==
    /\ Failed("i1") /\ inv["i1"].outcome.kind = "http_error"
    /\ Done("i2") /\ inv["i2"].outcome.kind = "response"
    /\ inv["i1"].handler = inv["i2"].handler
    /\ ~inv["i2"].completion.isError
    /\ ~FoundNothing("i2")

----------------------------------------------------------------------------
\* Equality of two configs; the kinds are compared before the values.
SameParam(a, b) == a.kind = b.kind /\ a.val = b.val
SameConfig(c, d) == SameParam(c.tools, d.tools) /\ SameParam(c.enabledTools, d.enabledTools)

(* C20: computing the active set is pure and deterministic: two calls of   *)
(* the default export with identical configs register the same tools, a    *)
(* call never modifies the shared descriptor table, and the tools a call   *)
(* registers do not depend on the configs of earlier calls in the process. *)
C20_ActiveSetIsPure ==
    /\ [][toolTable' = toolTable]_vars
    /\ [](\A id \in DOMAIN toolTable :
            toolTable[id].enabled = (id \in {"web_search_exa", "get_code_context_exa"}))
    /\ [](\A i, j \in 1..Len(instances) :
            SameConfig(instances[i].config, instances[j].config)
                => instances[i].registeredTools = instances[j].registeredTools)

C20_Witness ==
    /\ Len(instances) = 3
    /\ instances[1].config.tools.kind = "absent"
    /\ instances[2].config.tools.kind = "string"
    /\ instances[2].registeredTools = <<"crawling_exa">>
    /\ SameConfig(instances[3].config, instances[1].config)
    /\ instances[3].registeredTools = <<"web_search_exa", "get_code_context_exa">>

----------------------------------------------------------------------------
(* Vocabulary of the registration order. *)

\* The comma-delimited piece of s that position k lies in.
PieceOf(s, k) == 1 + Cardinality({j \in 1..(k - 1) : s[j] = ","})

\* The positions at which a selection lists the id: the pieces of a string
\* that hold the id and whitespace only, the elements of an array equal to it.
ListedAt(p, id) ==
    CASE p.kind = "absent" -> {}
      [] p.kind = "string" ->
            {PieceOf(p.val, k) : k \in
                {k \in 1..Len(p.val) :
                    /\ p.val[k] = id
                    /\ \A j \in 1..Len(p.val) :
                          (j # k /\ PieceOf(p.val, j) = PieceOf(p.val, k))
                              => p.val[j] \in {" ", ","}}}
      [] p.kind = "array" -> {k \in 1..Len(p.val) : p.val[k] = <<id>>}

\* The first position at which the selection lists the id.
FirstListedAt(p, id) == CHOOSE n \in ListedAt(p, id) : \A m \in ListedAt(p, id) : n <= m

(* C21: the order in which the active tools are registered, and listed in  *)
(* the registration log, preserves the order of the ids in the             *)
(* configuration's tool selection.                                         *)
C21_RegistrationKeepsSelectionOrder ==
    phase = "ready" =>
        \A p \in SoleSelection(config) :
            \A i, j \in 1..Len(registeredTools) :
                (/\ i < j
                 /\ ListedAt(p, registeredTools[i]) # {}
                 /\ ListedAt(p, registeredTools[j]) # {})
                    => FirstListedAt(p, registeredTools[i]) < FirstListedAt(p, registeredTools[j])

----------------------------------------------------------------------------
----------------------------------------------------------------------------
\* The request of the invocation ended by its timeout.
TimedOut(id) ==
    /\ Done(id) /\ inv[id].outcome.kind = "no_response"
    /\ inv[id].outcome.message[1] = "timeout of "

(* C23: every handler invocation eventually returns a result: whether the  *)
(* remote call responds or its fixed timeout expires, the handler ends     *)
(* with a success, a 'nothing found' or an error result, and a timeout     *)
(* gives an error result classified as having no response, not a hang.     *)
C23_InvocationsTerminate ==
    /\ \A id \in Invocations :
          (inv[id].pc = "awaiting") ~> (Done(id) /\ inv[id].completion.kind = "return")
    /\ [](\A id \in Invocations :
            TimedOut(id) =>
                /\ inv[id].completion.kind = "return"
                /\ inv[id].completion.isError
                /\ StatusSlot(TextOf(id).s) = "unknown")

C23_Witness ==
    /\ TimedOut("i1") /\ inv["i1"].handler = "exaCode" /\ inv["i1"].completion.isError
    /\ TimedOut("i2") /\ inv["i2"].handler = "deepSearch" /\ inv["i2"].completion.isError

----------------------------------------------------------------------------
\* The selection lists the id once split on commas and trimmed: a piece of
\* a string, or an element of an array, that holds the id and whitespace only.
NormalizedListed(p, id) ==
    CASE p.kind = "absent" -> FALSE
      [] p.kind = "string" -> <<id>> \in IdsOfString(p.val)
      [] p.kind = "array" ->
            \E e \in SeqToSet(p.val) : \E k \in 1..Len(e) :
                e[k] = id /\ \A j \in 1..Len(e) : j # k => e[j] = " "

(* C24: a tool selection that is non-empty after normalization but holds   *)
(* only unknown ids registers no tool at all: the default-enabled tools    *)
(* are the fallback of an empty normalized selection only, never of an     *)
(* empty intersection with the known ids.                                  *)
C24_UnknownOnlyRegistersNothing ==
    phase = "ready" =>
        \A p \in SoleSelection(config) :
            ~NormalizesToEmpty(p) =>
                /\ (\A id \in KnownIds : ~NormalizedListed(p, id)) => registeredTools = <<>>
                /\ \A id \in Registered : NormalizedListed(p, id)

C24_Witness ==
    /\ phase = "ready"
    /\ config.enabledTools.kind = "absent"
    /\ config.tools.kind = "string" /\ config.tools.val = <<"bogus_tool", ",", " ", "bogus_tool">>
    /\ registeredTools = <<>>

----------------------------------------------------------------------------
\* The parameter that decides the active set when both may be supplied.
DecidingSelection(cfg) ==
    IF cfg.tools.kind = "array" \/ (cfg.tools.kind = "string" /\ Len(cfg.tools.val) > 0)
    THEN cfg.tools ELSE cfg.enabledTools

(* C25: when both tools and enabledTools are supplied, tools alone decides *)
(* the active set whenever it is a non-empty string or any array;          *)
(* enabledTools is consulted only when tools is absent or the empty        *)
(* string.  An empty-array tools masks a non-empty enabledTools and yields *)
(* the default-enabled tools.                                              *)
C25_ToolsTakesPrecedence ==
    phase = "ready" =>
        /\ registeredTools =
              registerTools(normalize([tools |-> DecidingSelection(config),
                                       enabledTools |-> Absent]))
        /\ (config.tools.kind = "array" /\ Len(config.tools.val) = 0)
              => Registered = DefaultEnabled
        /\ (/\ config.tools.kind = "string" /\ Len(config.tools.val) = 0
            /\ config.enabledTools.kind = "string"
            /\ config.enabledTools.val = <<"crawling_exa">>)
              => registeredTools = <<"crawling_exa">>
        /\ (/\ config.tools.kind = "string" /\ config.tools.val = <<"web_search_exa">>
            /\ config.enabledTools.kind # "absent")
              => registeredTools = <<"web_search_exa">>

C25_Witness ==
    /\ phase = "ready"
    /\ config.tools.kind = "array" /\ Len(config.tools.val) = 0
    /\ config.enabledTools.kind = "array" /\ Len(config.enabledTools.val) = 1
    /\ registeredTools = <<"web_search_exa", "get_code_context_exa">>

----------------------------------------------------------------------------
(* C26: each tool is registered at most once per server instance: the list *)
(* of registered tools never holds an id twice, also when the              *)
(* configuration lists the same id several times.                          *)
C26_NoDuplicateRegistration ==
    phase = "ready" =>
        /\ \A i, j \in 1..Len(registeredTools) :
              registeredTools[i] = registeredTools[j] => i = j
        /\ \A i, j \in 1..Len(boundTools) : boundTools[i] = boundTools[j] => i = j

C26_Witness ==
    /\ phase = "ready"
    /\ config.enabledTools.kind = "absent"
    /\ config.tools.kind = "array"
    /\ Cardinality(ListedAt(config.tools, "crawling_exa")) = 2
    /\ Cardinality(ListedAt(config.tools, "web_search_exa")) = 1
    /\ registeredTools = <<"web_search_exa", "crawling_exa">>

----------------------------------------------------------------------------
(* C27: the tools_list resource reports every known descriptor exactly     *)
(* once, marked enabled exactly when that tool was registered at           *)
(* instantiation; the registered tools are fixed once instantiation        *)
(* completes, so the resource returns the same content after any sequence  *)
(* of tool invocations, successful or failed.                              *)
C27_ToolsListReflectsRegistration ==
    /\ [](Len(toolsList.contents) > 0 =>
            /\ Len(toolsList.contents) = Cardinality(KnownIds)
            /\ \A id \in KnownIds :
                  \E k \in 1..Len(toolsList.contents) :
                      /\ toolsList.contents[k].id = id
                      /\ toolsList.contents[k].enabled = (id \in Registered)
                      /\ \A m \in 1..Len(toolsList.contents) :
                            toolsList.contents[m].id = id => m = k)
    /\ [][phase = "ready" => registeredTools' = registeredTools]_vars
    /\ [][Len(toolsList.contents) > 0 => toolsList'.contents = toolsList.contents]_vars

C27_Witness ==
    /\ registeredTools = <<"crawling_exa">>
    /\ Failed("i1") /\ Done("i2") /\ ~inv["i2"].completion.isError
    /\ toolsList.readAfter = 2
    /\ \E k \in 1..Len(toolsList.contents) :
          toolsList.contents[k].id = "crawling_exa" /\ toolsList.contents[k].enabled
    /\ \E k \in 1..Len(toolsList.contents) :
          toolsList.contents[k].id = "web_search_exa" /\ ~toolsList.contents[k].enabled

----------------------------------------------------------------------------
(* C28: every result the get_code_context_exa handler returns holds        *)
(* exactly one content block of type text whose text is a string: the      *)
(* remote response field verbatim when it is a string, and otherwise -     *)
(* also when the body is present but has no response field - still a       *)
(* defined string, never an absent value reported as success.              *)
C28_CodeContextTextIsAString ==
    \A id \in Invocations :
        (Done(id) /\ inv[id].handler = "exaCode") =>
            /\ inv[id].completion.kind = "return"
            /\ Len(inv[id].completion.content) = 1
            /\ inv[id].completion.content[1].type = "text"
            /\ TextOf(id).t = "string"
            /\ (inv[id].outcome.kind = "response" /\ inv[id].outcome.data.hasData
                  /\ inv[id].outcome.data.response.t = "string")
                => TextOf(id) = inv[id].outcome.data.response

----------------------------------------------------------------------------
\* The tools the normalized selection makes active.
Active ==
    {id \in KnownIds :
        IF parsedEnabledTools.defined /\ Len(parsedEnabledTools.list) > 0
        THEN <<id>> \in SeqToSet(parsedEnabledTools.list)
        ELSE id \in DefaultEnabled}

(* C29: server instantiation is all-or-nothing towards its caller: when a  *)
(* step of the instantiation throws, the error is logged and rethrown and  *)
(* no server object is returned; otherwise a server object is returned     *)
(* with every active tool already registered.                              *)
C29_InstantiationAllOrNothing ==
    phase # "start" =>
        /\ fault # NoFault =>
              /\ returned = "throw"
              /\ phase = "failed"
              /\ errorLog = <<"Server initialization error: ", fault.step>>
        /\ fault = NoFault =>
              /\ returned = "server"
              /\ phase = "ready"
              /\ errorLog = <<>>
        /\ returned = "server" =>
              /\ Registered = Active
              /\ SeqToSet(boundTools) = Active

C29_Witness ==
    /\ phase = "failed"
    /\ fault = [step |-> "tool", at |-> 2]
    /\ registeredTools = <<"web_search_exa">>
    /\ returned = "throw"
    /\ Len(errorLog) = 2

====
